---- MODULE Spec2Model ----
(***************************************************************************)
(* Four parts of the job board's client:                                   *)
(*   - the resume score card (ResumeScoreCard), a render function from an  *)
(*     application's match assessment to the card it shows;               *)
(*   - the checkout page (Checkout, CheckoutForm);                         *)
(*   - the sign-in / sign-up page (Auth);                                  *)
(*   - the add-job form of the jobs page (Jobs).                           *)
(* Each part has its own specification; the variables of the other parts   *)
(* stay as they are after construction.                                    *)
(*                                                                         *)
(* Scores are JavaScript numbers with one decimal; every score is held     *)
(* here in TENTHS of a point (5.0 is 50, 1.8 is 18, 10.6 is 106), and the   *)
(* literals of the source are written in tenths as well.                   *)
(* An optional field (companyScore?, processingError?, job?, company?) is  *)
(* a sequence of length 0 (undefined) or 1 (the value).                    *)
(***************************************************************************)
EXTENDS Integers, Sequences, FiniteSets, TLC

VARIABLES application, view, renders, elsewhere, checkout, auth, jobs

vars == <<application, view, renders, elsewhere, checkout, auth, jobs>>

\* The variables of the score card (the application, the card one parent
\* shows and the card another parent shows of the same application), and
\* those of the three pages.
cardVars == <<application, view, renders, elsewhere>>
pageVars == <<checkout, auth, jobs>>

\* How many times the card is rendered over again on the same props, by
\* each of its parents.
MaxRenders == 1

\* How many times the payment form is submitted.
MaxSubmits == 2

\* How many times the sign-in and sign-up forms are submitted.
MaxAuthSubmits == 1

\* How many times the add-job form is submitted.
MaxJobSubmits == 2

None == <<>>
Some(x) == <<x>>

----------------------------------------------------------------------------
(* Inputs: the props the component is handed.                              *)

MatchScoreValues == {-10, 0, 39, 40, 49, 50, 59, 60, 69, 70, 79, 80, 106, 130}
SkillsScoreValues == {0, 20, 39, 40, 50, 70}
ExperienceScoreValues == {-5, 14, 15, 18, 20}
EducationScoreValues == {0, 14, 15, 18, 20, 25}
CompanyScoreValues == {None, Some(0), Some(10), Some(20), Some(-10)}
ProcessingErrorValues == {None, Some(""), Some("OCR failed")}
JobValues ==
    { None,
      Some([title |-> "Engineer", company |-> None]),
      Some([title |-> "Engineer", company |-> Some([name |-> "Acme"])]) }
ParsedCompaniesValues == {None, Some(<<"Acme", "Globex", "Initech">>)}

Applications ==
    [ matchScore : MatchScoreValues,
      skillsScore : SkillsScoreValues,
      experienceScore : ExperienceScoreValues,
      educationScore : EducationScoreValues,
      companyScore : CompanyScoreValues,
      isProcessed : BOOLEAN,
      processingError : ProcessingErrorValues,
      parsedCompanies : ParsedCompaniesValues,
      job : JobValues ]

----------------------------------------------------------------------------
(* Number -> text, as JSX prints a number with at most one decimal.        *)

Digit(d) == <<"0", "1", "2", "3", "4", "5", "6", "7", "8", "9">>[d + 1]

RECURSIVE NatToString(_)
NatToString(n) ==
    IF n < 10 THEN Digit(n) ELSE NatToString(n \div 10) \o Digit(n % 10)

NumberToString(t) ==
    LET a == IF t < 0 THEN -t ELSE t
        body == IF a % 10 = 0
                THEN NatToString(a \div 10)
                ELSE NatToString(a \div 10) \o "." \o Digit(a % 10)
    IN  IF t < 0 THEN "-" \o body ELSE body

----------------------------------------------------------------------------
(* The component.                                                          *)

\* companyScore = 0 in the destructuring: the default of an undefined field.
CompanyScoreOf(app) ==
    IF app.companyScore = None THEN 0 ELSE app.companyScore[1]

\* parsedCompanies = [] in the destructuring.
ParsedCompaniesOf(app) ==
    IF app.parsedCompanies = None THEN <<>> ELSE app.parsedCompanies[1]

\* if (processingError): undefined and the empty string are falsy.
HasProcessingError(app) ==
    /\ app.processingError # None
    /\ app.processingError[1] # ""

\* application.job?.company
TargetCompany(app) ==
    IF app.job = None THEN None ELSE app.job[1].company

getScoreColor(score) ==
    IF score >= 80 THEN "text-green-600 bg-green-100"
    ELSE IF score >= 60 THEN "text-yellow-600 bg-yellow-100"
    ELSE IF score >= 40 THEN "text-orange-600 bg-orange-100"
    ELSE "text-red-600 bg-red-100"

\* getScoreLabel with the cut points exclusive.
getScoreLabel_exclusive(score) ==
    IF score > 80 THEN "Excellent Match"
    ELSE IF score > 60 THEN "Good Match"
    ELSE IF score > 40 THEN "Fair Match"
    ELSE "Needs Improvement"

getScoreLabel(score) ==
    IF score >= 80 THEN "Excellent Match"
    ELSE IF score >= 60 THEN "Good Match"
    ELSE IF score >= 40 THEN "Fair Match"
    ELSE "Needs Improvement"

\* getProgressColor with the cut points of another scale.
getProgressColor_shifted(score) ==
    IF score >= 90 THEN "bg-green-500"
    ELSE IF score >= 70 THEN "bg-yellow-500"
    ELSE IF score >= 50 THEN "bg-orange-500"
    ELSE "bg-red-500"

getProgressColor(score) ==
    IF score >= 80 THEN "bg-green-500"
    ELSE IF score >= 60 THEN "bg-yellow-500"
    ELSE IF score >= 40 THEN "bg-orange-500"
    ELSE "bg-red-500"

\* (score / scale) * 100 as the exact fraction num / den; scale is in tenths.
ProgressValue(score, scale) == [num |-> score * 100, den |-> scale]

\* The title's job line: the title, then " at <company>" when there is one.
JobLine(app) ==
    IF app.job = None THEN None
    ELSE Some(app.job[1].title \o
              (IF app.job[1].company = None THEN ""
               ELSE " at " \o app.job[1].company[1].name))

\* parsedCompanies.slice(0, 2).join(', '), shown when the list is not empty.
MatchedCompaniesLine(companies) ==
    IF Len(companies) = 0 THEN None
    ELSE IF Len(companies) = 1 THEN Some(companies[1])
    ELSE Some(companies[1] \o ", " \o companies[2])

\* The overall score printed without its decimal.
OverallScore_truncated(matchScore) ==
    [ text |-> NumberToString(10 * (matchScore \div 10)) \o "/12",
      colorClass |-> getScoreColor(matchScore),
      label |-> getScoreLabel(matchScore),
      progress |-> ProgressValue(matchScore, 120),
      progressColor |-> getProgressColor(matchScore) ]

OverallScore(matchScore) ==
    [ text |-> NumberToString(matchScore) \o "/12",
      colorClass |-> getScoreColor(matchScore),
      label |-> getScoreLabel(matchScore),
      progress |-> ProgressValue(matchScore, 120),
      progressColor |-> getProgressColor(matchScore) ]

SkillsTile(skillsScore) ==
    [ text |-> NumberToString(skillsScore) \o "/6",
      caption |-> "Skills Match",
      colorClass |-> "text-blue-600",
      progress |-> ProgressValue(skillsScore, 60) ]

ExperienceTile(experienceScore) ==
    [ text |-> NumberToString(experienceScore) \o "/2",
      caption |-> "Experience",
      colorClass |-> "text-purple-600",
      progress |-> ProgressValue(experienceScore, 20) ]

EducationTile(educationScore) ==
    [ text |-> NumberToString(educationScore) \o "/2",
      caption |-> "Education",
      colorClass |-> "text-green-600",
      progress |-> ProgressValue(educationScore, 20) ]

CompanyTile(companyScore, companies) ==
    [ text |-> IF companyScore > 0
               THEN "+" \o NumberToString(companyScore)
               ELSE NumberToString(companyScore),
      caption |-> "Company Match",
      colorClass |-> "text-orange-600",
      progress |-> IF companyScore > 0
                   THEN [num |-> 100, den |-> 1]
                   ELSE [num |-> 0, den |-> 1],
      companies |-> MatchedCompaniesLine(companies) ]

(* The recommendation list: seven conditional <li> items, in JSX order.    *)
(* Each item is its text without the bullet character that leads it.       *)

SkillsRecommendation(app) ==
    IF app.skillsScore < 40
    THEN <<"Focus on highlighting more relevant technical skills (highest impact)">>
    ELSE <<>>

\* Rule 2 with the maximum of the scale as its threshold.
ExperienceRecommendation_belowMax(app) ==
    IF app.experienceScore < 20
    THEN <<"Emphasize your relevant work experience and achievements">>
    ELSE <<>>

ExperienceRecommendation(app) ==
    IF app.experienceScore < 15
    THEN <<"Emphasize your relevant work experience and achievements">>
    ELSE <<>>

EducationRecommendation(app) ==
    IF app.educationScore < 15
    THEN <<"Include relevant certifications or educational background">>
    ELSE <<>>

\* Rule 4 without the test for a target company.
SimilarCompaniesRecommendation_noTarget(app) ==
    IF CompanyScoreOf(app) = 0
    THEN <<"Highlight any experience with similar companies or clients">>
    ELSE <<>>

SimilarCompaniesRecommendation(app) ==
    IF CompanyScoreOf(app) = 0 /\ TargetCompany(app) # None
    THEN <<"Highlight any experience with similar companies or clients">>
    ELSE <<>>

\* Rule 5 with >= in place of >.
CompanyAdvantageRecommendation_nonNegative(app) ==
    IF CompanyScoreOf(app) >= 0
    THEN <<"Excellent! Your experience with similar companies is a strong advantage">>
    ELSE <<>>

CompanyAdvantageRecommendation(app) ==
    IF CompanyScoreOf(app) > 0
    THEN <<"Excellent! Your experience with similar companies is a strong advantage">>
    ELSE <<>>

GreatMatchRecommendation(app) ==
    IF app.matchScore >= 70
    THEN <<"Great match! Your profile aligns well with this position">>
    ELSE <<>>

\* Rule 7 with the threshold of the Fair band.
TailorResumeRecommendation_belowFair(app) ==
    IF app.matchScore < 40
    THEN <<"Consider tailoring your resume to better match job requirements">>
    ELSE <<>>

TailorResumeRecommendation(app) ==
    IF app.matchScore < 50
    THEN <<"Consider tailoring your resume to better match job requirements">>
    ELSE <<>>

\* The list with the first two items in the other order.
Recommendations_reordered(app) ==
    ExperienceRecommendation(app) \o SkillsRecommendation(app)
        \o EducationRecommendation(app) \o SimilarCompaniesRecommendation(app)
        \o CompanyAdvantageRecommendation(app) \o GreatMatchRecommendation(app)
        \o TailorResumeRecommendation(app)

Recommendations(app) ==
    SkillsRecommendation(app) \o ExperienceRecommendation(app)
        \o EducationRecommendation(app) \o SimilarCompaniesRecommendation(app)
        \o CompanyAdvantageRecommendation(app) \o GreatMatchRecommendation(app)
        \o TailorResumeRecommendation(app)

\* The verdict with an exclusive threshold.
QualificationStatus_exclusive(matchScore) ==
    IF matchScore > 50
    THEN "Qualified - Resume meets minimum requirements"
    ELSE "Below threshold - Consider improving your resume"

QualificationStatus(matchScore) ==
    IF matchScore >= 50
    THEN "Qualified - Resume meets minimum requirements"
    ELSE "Below threshold - Consider improving your resume"

(* The three cards.  Every card is a record of the same shape; a part the  *)
(* card does not hold is None (and the recommendation list is empty).      *)

NoCard ==
    [ state |-> "Unrendered", title |-> "", description |-> "", jobLine |-> None,
      overall |-> None, skills |-> None, experience |-> None,
      education |-> None, company |-> None,
      recommendations |-> <<>>, verdict |-> None ]

PendingCard ==
    [ NoCard EXCEPT !.state = "Pending",
                    !.title = "Resume Analysis Pending",
                    !.description =
                        "Your resume is being analyzed. This usually takes a few minutes." ]

\* The failed card with the error wrapped in a message of its own.
FailedCard_wrapped(app) ==
    [ NoCard EXCEPT !.state = "Failed",
                    !.title = "Analysis Failed",
                    !.description = "Error: " \o app.processingError[1] ]

FailedCard(app) ==
    [ NoCard EXCEPT !.state = "Failed",
                    !.title = "Analysis Failed",
                    !.description = app.processingError[1] ]

ScoredCard(app) ==
    [ state |-> "Scored",
      title |-> "Resume Match Score",
      description |-> "How well your resume matches this job requirements",
      jobLine |-> JobLine(app),
      overall |-> Some(OverallScore(app.matchScore)),
      skills |-> Some(SkillsTile(app.skillsScore)),
      experience |-> Some(ExperienceTile(app.experienceScore)),
      education |-> Some(EducationTile(app.educationScore)),
      company |-> Some(CompanyTile(CompanyScoreOf(app), ParsedCompaniesOf(app))),
      recommendations |-> Recommendations(app),
      verdict |-> Some(QualificationStatus(app.matchScore)) ]

\* The component with the error test ahead of the isProcessed test.
ResumeScoreCard_errorFirst(app) ==
    IF HasProcessingError(app) THEN FailedCard(app)
    ELSE IF ~app.isProcessed THEN PendingCard
    ELSE ScoredCard(app)

ResumeScoreCard(app) ==
    IF ~app.isProcessed THEN PendingCard
    ELSE IF HasProcessingError(app) THEN FailedCard(app)
    ELSE ScoredCard(app)

----------------------------------------------------------------------------
(* The checkout page: Checkout and, inside it, CheckoutForm.               *)

\* The plan parameter of the URL: absent, empty, or a value; two of the
\* values are names that every object inherits.
PlanParams ==
    { None, Some(""), Some("recruiter"), Some("client"), Some("free"),
      Some("constructor"), Some("__proto__") }

\* What the create-subscription request may end with: a body with a
\* clientSecret, a body without one, or a failure of the request.
SubscriptionResponses ==
    { [ok |-> TRUE, clientSecret |-> "pi_1_secret_2"],
      [ok |-> TRUE, clientSecret |-> ""],
      [ok |-> FALSE, clientSecret |-> ""] }

\* What confirmPayment may resolve with: no error, or an error's message.
ConfirmPaymentErrors == {None, Some("Your card was declined."), Some("")}

\* How the promise of confirmPayment may end: resolved with one of the
\* results above, rejected with an exception, or never settled because the
\* browser is sent to the return_url.
ConfirmPaymentOutcomes == {"resolved", "rejected", "redirected"}

Toast(title, description, variant) ==
    [title |-> title, description |-> description, variant |-> variant]

\* urlParams.get("plan") || "recruiter"
CheckoutPlan(param) ==
    IF param = None \/ param = Some("") THEN "recruiter" ELSE param[1]

planDetails ==
    [ recruiter |->
        [ name |-> "Recruiter Pro",
          price |-> "$49",
          period |-> "month",
          features |-> << "Unlimited job postings",
                          "Advanced candidate search",
                          "AI-powered resume matching",
                          "Priority support",
                          "Advanced analytics",
                          "Custom branding",
                          "Social media auto-posting" >> ] ]

\* What the object literal inherits from Object.prototype: the methods, of
\* which only the name is of interest here (a function's name property), and
\* under __proto__ the prototype itself, which has no name. None of them has
\* a price, a period or features.
ObjectPrototype ==
    [ key \in { "constructor", "hasOwnProperty", "isPrototypeOf",
                "propertyIsEnumerable", "toLocaleString", "toString",
                "valueOf", "__defineGetter__", "__defineSetter__",
                "__lookupGetter__", "__lookupSetter__", "__proto__" } |->
        IF key = "__proto__" THEN <<>>
        ELSE [ name |-> IF key = "constructor" THEN "Object" ELSE key ] ]

\* planDetails[plan as keyof typeof planDetails]: the object's own value, or
\* the value inherited along the prototype chain, or undefined for a key
\* found in neither.
currentPlan(plan) ==
    IF plan \in DOMAIN planDetails THEN Some(planDetails[plan])
    ELSE IF plan \in DOMAIN ObjectPrototype THEN Some(ObjectPrototype[plan])
    ELSE None

\* The plan summary can be rendered: currentPlan.name does not throw, and
\* neither does currentPlan.features.map.
PlanSummaryRenders(plan) ==
    /\ currentPlan(plan) # None
    /\ "features" \in DOMAIN currentPlan(plan)[1]

\* The page after construction: useState("") and useState(true) of Checkout,
\* useState(false) of CheckoutForm, the Stripe object not yet loaded.
CheckoutMounted(param) ==
    [ planParam |-> param,
      request |-> "none",
      requestBody |-> None,
      response |-> None,
      clientSecret |-> "",
      isLoading |-> TRUE,
      stripe |-> FALSE,
      elements |-> FALSE,
      isProcessing |-> FALSE,
      submit |-> "idle",
      submits |-> 0,
      error |-> None,
      toasts |-> <<>>,
      location |-> "/checkout" ]

\* What Checkout returns: the spinner, the failure card, or the plan summary
\* with the payment form; reading currentPlan.name of an undefined
\* currentPlan throws while rendering, and so does calling map on the
\* undefined features of an inherited value.
CheckoutScreen(c) ==
    IF c.isLoading THEN "Loading"
    ELSE IF c.clientSecret = "" THEN "Unable"
    ELSE IF ~PlanSummaryRenders(CheckoutPlan(c.planParam)) THEN "RenderError"
    ELSE "Payment"

\* disabled={!stripe || isProcessing}
SubmitDisabled(c) == ~c.stripe \/ c.isProcessing

\* The button's text.
SubmitLabel(c) ==
    IF c.isProcessing THEN "Processing..." ELSE "Start Subscription"

\* useEffect: the create-subscription request goes out when the page loads.
CreateSubscription ==
    /\ checkout.request = "none"
    /\ checkout' = [checkout EXCEPT
                      !.request = "pending",
                      !.requestBody =
                          Some([plan |-> CheckoutPlan(checkout.planParam)])]
    /\ UNCHANGED <<cardVars, auth, jobs>>

\* .then(res => res.json()).then(...).catch(...): the secret is kept when the
\* body has one; a body without one and a failed request both end in the
\* catch and its toast.
CreateSubscriptionSettles ==
    /\ checkout.request = "pending"
    /\ \E res \in SubscriptionResponses :
          checkout' =
              [checkout EXCEPT
                  !.request = "handled",
                  !.response = Some(res),
                  !.clientSecret =
                      IF res.ok /\ res.clientSecret # ""
                      THEN res.clientSecret ELSE @,
                  !.toasts =
                      IF res.ok /\ res.clientSecret # ""
                      THEN @
                      ELSE Append(@, Toast("Payment Setup Failed",
                               "Unable to initialize payment. Please try again.",
                               "destructive"))]
    /\ UNCHANGED <<cardVars, auth, jobs>>

\* .finally(() => setIsLoading(false))
CreateSubscriptionFinally ==
    /\ checkout.request = "handled"
    /\ checkout' = [checkout EXCEPT !.request = "settled",
                                    !.isLoading = FALSE]
    /\ UNCHANGED <<cardVars, auth, jobs>>

\* useStripe() turns from null to the Stripe object.
StripeLoads ==
    /\ ~checkout.stripe
    /\ checkout' = [checkout EXCEPT !.stripe = TRUE]
    /\ UNCHANGED <<cardVars, auth, jobs>>

\* useElements() turns from null to the Elements object.
ElementsLoad ==
    /\ checkout.stripe
    /\ ~checkout.elements
    /\ checkout' = [checkout EXCEPT !.elements = TRUE]
    /\ UNCHANGED <<cardVars, auth, jobs>>

\* handleSubmit up to its await: the form is on the page and its button is
\* enabled; isProcessing is set, then the handler returns when stripe or
\* elements is missing, and calls confirmPayment otherwise.
HandleSubmit ==
    /\ checkout.location = "/checkout"
    /\ CheckoutScreen(checkout) = "Payment"
    /\ ~SubmitDisabled(checkout)
    /\ checkout.submit = "idle"
    /\ checkout.submits < MaxSubmits
    /\ checkout' =
          [checkout EXCEPT
              !.submits = @ + 1,
              !.isProcessing = TRUE,
              !.submit = IF ~checkout.stripe \/ ~checkout.elements
                         THEN "idle" ELSE "confirming"]
    /\ UNCHANGED <<cardVars, auth, jobs>>

\* The end of handleSubmit with the navigation outside the else branch.
ConfirmPaymentResolves_alwaysNavigates ==
    /\ checkout.submit = "confirming"
    /\ "resolved" \in ConfirmPaymentOutcomes
    /\ \E error \in ConfirmPaymentErrors :
          checkout' =
              [checkout EXCEPT
                  !.submit = "idle",
                  !.error = Some(error),
                  !.toasts =
                      IF error # None
                      THEN Append(@, Toast("Payment Failed", error[1],
                                           "destructive"))
                      ELSE Append(@, Toast("Payment Successful",
                               "Welcome to PingJob Pro! Your subscription is now active.",
                               "default")),
                  !.location = "/dashboard",
                  !.isProcessing = FALSE]
    /\ UNCHANGED <<cardVars, auth, jobs>>

\* handleSubmit after its await: the toast of the outcome, the navigation
\* on success, and setIsProcessing(false).
ConfirmPaymentResolves ==
    /\ checkout.submit = "confirming"
    /\ "resolved" \in ConfirmPaymentOutcomes
    /\ \E error \in ConfirmPaymentErrors :
          checkout' =
              [checkout EXCEPT
                  !.submit = "idle",
                  !.error = Some(error),
                  !.toasts =
                      IF error # None
                      THEN Append(@, Toast("Payment Failed", error[1],
                                           "destructive"))
                      ELSE Append(@, Toast("Payment Successful",
                               "Welcome to PingJob Pro! Your subscription is now active.",
                               "default")),
                  !.location = IF error # None THEN @ ELSE "/dashboard",
                  !.isProcessing = FALSE]
    /\ UNCHANGED <<cardVars, auth, jobs>>

\* confirmPayment rejects: the await throws out of handleSubmit, which has
\* no try, so neither a toast nor setIsProcessing(false) is reached.
ConfirmPaymentRejects ==
    /\ checkout.submit = "confirming"
    /\ "rejected" \in ConfirmPaymentOutcomes
    /\ checkout' = [checkout EXCEPT !.submit = "idle"]
    /\ UNCHANGED <<cardVars, auth, jobs>>

\* confirmPayment never settles, the payment being completed through the
\* return_url: handleSubmit stays at its await for good.
ConfirmPaymentRedirects ==
    /\ checkout.submit = "confirming"
    /\ "redirected" \in ConfirmPaymentOutcomes
    /\ checkout' = [checkout EXCEPT !.submit = "redirected"]
    /\ UNCHANGED <<cardVars, auth, jobs>>

----------------------------------------------------------------------------
(* The sign-in / sign-up page: Auth.                                       *)

\* The plan and mode parameters of the URL.
AuthPlanParams == {None, Some("recruiter"), Some("client")}
AuthModeParams == {None, Some("register")}

\* What is typed into the password fields, and chosen as account type.
PasswordValues == {"", "abc", "abcdef", "abcdefg"}
UserTypeValues == {"job_seeker", "recruiter", "client"}

\* What apiRequest may end with: a response that is ok, with the user as
\* its body; a response that is not ok, with a body that holds a message or
\* none; or an exception of the request itself.
ApiRequestOutcomes ==
    { [kind |-> "ok", user |-> "ann", message |-> ""],
      [kind |-> "notOk", user |-> "", message |-> "Invalid credentials"],
      [kind |-> "notOk", user |-> "", message |-> ""],
      [kind |-> "rejected", user |-> "", message |-> "Failed to fetch"] }

\* mutationFn of loginMutation: throws for a response that is not ok, with
\* errorData.message || "Login failed"; the user of the body otherwise.
LoginMutationFn(outcome) ==
    IF outcome.kind = "ok"
    THEN [resolved |-> TRUE, user |-> outcome.user, message |-> ""]
    ELSE IF outcome.kind = "notOk"
    THEN [resolved |-> FALSE, user |-> "",
          message |-> IF outcome.message # "" THEN outcome.message
                      ELSE "Login failed"]
    ELSE [resolved |-> FALSE, user |-> "", message |-> outcome.message]

\* mutationFn of registerMutation: the body of the response, whether the
\* response is ok or not; only an exception of the request rejects.
RegisterMutationFn(outcome) ==
    IF outcome.kind = "rejected"
    THEN [resolved |-> FALSE, user |-> "", message |-> outcome.message]
    ELSE [resolved |-> TRUE, user |-> outcome.user, message |-> ""]

\* urlParams.get("plan") || "free"
AuthPlan(param) ==
    IF param = None \/ param = Some("") THEN "free" ELSE param[1]

\* urlParams.get("mode") || "login"
AuthMode(param) ==
    IF param = None \/ param = Some("") THEN "login" ELSE param[1]

\* The page after construction and its mode effect: the empty form, with the
\* account type that goes with the plan.
AuthMounted(planParam, modeParam) ==
    [ planParam |-> planParam,
      activeTab |-> AuthMode(modeParam),
      formData |->
          [ email |-> "",
            password |-> "",
            firstName |-> "",
            lastName |-> "",
            userType |->
                IF AuthPlan(planParam) = "recruiter" THEN "recruiter"
                ELSE IF AuthPlan(planParam) = "client" THEN "client"
                ELSE "job_seeker",
            confirmPassword |-> "" ],
      register |-> "idle",
      registerResponse |-> None,
      login |-> "idle",
      loginResponse |-> None,
      submits |-> 0,
      requests |-> <<>>,
      toasts |-> <<>>,
      cachedUser |-> None,
      navigateTimer |-> FALSE,
      location |-> "/auth" ]

\* The checks of a sign-up with the length check ahead of the match check.
RegisterRejection_lengthFirst(formData) ==
    IF Len(formData.password) < 6
    THEN Some(Toast("Password too short",
                    "Password must be at least 6 characters long.",
                    "destructive"))
    ELSE IF formData.password # formData.confirmPassword
    THEN Some(Toast("Passwords don't match",
                    "Please make sure your passwords match.", "destructive"))
    ELSE None

\* The checks of a sign-up: the toast of the first check that fails, or
\* nothing when both pass.
RegisterRejection(formData) ==
    IF formData.password # formData.confirmPassword
    THEN Some(Toast("Passwords don't match",
                    "Please make sure your passwords match.", "destructive"))
    ELSE IF Len(formData.password) < 6
    THEN Some(Toast("Password too short",
                    "Password must be at least 6 characters long.",
                    "destructive"))
    ELSE None

\* The body of POST /api/register.
RegisterRequest(formData, plan) ==
    [ url |-> "/api/register",
      body |-> [ email |-> formData.email,
                 password |-> formData.password,
                 firstName |-> formData.firstName,
                 lastName |-> formData.lastName,
                 userType |-> formData.userType,
                 subscriptionPlan |-> plan ] ]

\* The body of POST /api/login.
LoginRequest(formData) ==
    [ url |-> "/api/login",
      body |-> [email |-> formData.email, password |-> formData.password] ]

\* Tabs onValueChange={setActiveTab}
SetActiveTab ==
    /\ auth.location = "/auth"
    /\ \E tab \in {"login", "register"} :
          /\ tab # auth.activeTab
          /\ auth' = [auth EXCEPT !.activeTab = tab]
    /\ UNCHANGED <<cardVars, checkout, jobs>>

\* handleInputChange(field, value)
HandleInputChange ==
    /\ auth.location = "/auth"
    /\ \E field \in {"password", "confirmPassword", "userType"} :
          \E value \in IF field = "userType" THEN UserTypeValues
                       ELSE PasswordValues :
              /\ field \in {"confirmPassword", "userType"} =>
                    auth.activeTab = "register"
              /\ auth.formData[field] # value
              /\ auth' = [auth EXCEPT !.formData[field] = value]
    /\ UNCHANGED <<cardVars, checkout, jobs>>

\* handleSubmit(e, "register"): the sign-up form is on the page and its
\* button is enabled.
SubmitRegister ==
    /\ auth.location = "/auth"
    /\ auth.activeTab = "register"
    /\ auth.register # "pending"
    /\ auth.submits < MaxAuthSubmits
    /\ LET rejection == RegisterRejection(auth.formData)
       IN  auth' =
             IF rejection # None
             THEN [auth EXCEPT !.submits = @ + 1,
                               !.toasts = Append(@, rejection[1])]
             ELSE [auth EXCEPT
                      !.submits = @ + 1,
                      !.register = "pending",
                      !.requests =
                          Append(@, RegisterRequest(auth.formData,
                                                    AuthPlan(auth.planParam)))]
    /\ UNCHANGED <<cardVars, checkout, jobs>>

\* handleSubmit(e, "login")
SubmitLogin ==
    /\ auth.location = "/auth"
    /\ auth.activeTab = "login"
    /\ auth.login # "pending"
    /\ auth.submits < MaxAuthSubmits
    /\ auth' = [auth EXCEPT !.submits = @ + 1,
                            !.login = "pending",
                            !.requests = Append(@, LoginRequest(auth.formData))]
    /\ UNCHANGED <<cardVars, checkout, jobs>>

\* registerMutation settles: onSuccess with its toast and redirect, or
\* onError with its toast.
RegisterSettles ==
    /\ auth.register = "pending"
    /\ \E outcome \in ApiRequestOutcomes :
          auth' =
            IF RegisterMutationFn(outcome).resolved
            THEN [auth EXCEPT
                    !.register = "success",
                    !.registerResponse = Some(outcome.kind),
                    !.toasts = Append(@, Toast("Account created!",
                        "Welcome to PingJob! Your free trial has started.",
                        "default")),
                    !.location = IF AuthPlan(auth.planParam) = "recruiter"
                                 THEN "/checkout?plan=recruiter"
                                 ELSE "/dashboard"]
            ELSE [auth EXCEPT
                    !.register = "error",
                    !.registerResponse = Some(outcome.kind),
                    !.toasts = Append(@, Toast("Registration failed",
                                          RegisterMutationFn(outcome).message,
                                          "destructive"))]
    /\ UNCHANGED <<cardVars, checkout, jobs>>

\* A login that navigates at once and leaves the query cache alone.
LoginSettles_navigatesAtOnce ==
    /\ auth.login = "pending"
    /\ \E outcome \in ApiRequestOutcomes :
          auth' =
            IF LoginMutationFn(outcome).resolved
            THEN [auth EXCEPT
                    !.login = "success",
                    !.loginResponse = Some(outcome.kind),
                    !.toasts = Append(@, Toast("Welcome back!",
                        "You have been successfully logged in.", "default")),
                    !.location = "/dashboard"]
            ELSE [auth EXCEPT
                    !.login = "error",
                    !.loginResponse = Some(outcome.kind),
                    !.toasts = Append(@, Toast("Login failed",
                                          LoginMutationFn(outcome).message,
                                          "destructive"))]
    /\ UNCHANGED <<cardVars, checkout, jobs>>

\* loginMutation settles: onSuccess writes the user to the query cache,
\* toasts and arms the 100 ms timer; onError toasts.
LoginSettles ==
    /\ auth.login = "pending"
    /\ \E outcome \in ApiRequestOutcomes :
          auth' =
            IF LoginMutationFn(outcome).resolved
            THEN [auth EXCEPT
                    !.login = "success",
                    !.loginResponse = Some(outcome.kind),
                    !.cachedUser = Some(LoginMutationFn(outcome).user),
                    !.toasts = Append(@, Toast("Welcome back!",
                        "You have been successfully logged in.", "default")),
                    !.navigateTimer = TRUE]
            ELSE [auth EXCEPT
                    !.login = "error",
                    !.loginResponse = Some(outcome.kind),
                    !.toasts = Append(@, Toast("Login failed",
                                          LoginMutationFn(outcome).message,
                                          "destructive"))]
    /\ UNCHANGED <<cardVars, checkout, jobs>>

\* setTimeout(() => setLocation('/dashboard'), 100) fires.
NavigateTimerFires ==
    /\ auth.navigateTimer
    /\ auth' = [auth EXCEPT !.navigateTimer = FALSE,
                            !.location = "/dashboard"]
    /\ UNCHANGED <<cardVars, checkout, jobs>>

----------------------------------------------------------------------------
(* The add-job form of the jobs page: Jobs.                                *)

\* The account types of the signed-in user; the form is shown to an admin.
JobsUserTypes == {"admin", "recruiter"}

\* The company the server knows, and what the companies query may return.
Globex == [id |-> 7, name |-> "Globex", industry |-> "Energy"]
CompanyLists == {<<>>, <<Globex>>}

\* What the company search box may hold, typed or set by a click on a
\* company, and what is typed into the title field.
CompanySearchValues == {"", "G", "Globex"}
TitleValues == {"", "Engineer"}

\* What insertJobSchema may be: the form's data differs in its title only, so
\* a schema is the set of titles whose data it accepts.
InsertJobSchemas == SUBSET TitleValues

\* What the create-job request may end with: a response, or an Error with
\* its message.
CreateJobOutcomes ==
    { [ok |-> TRUE, message |-> ""],
      [ok |-> FALSE, message |-> "400: Bad Request"],
      [ok |-> FALSE, message |-> ""] }

\* defaultValues of jobForm
JobFormDefaults ==
    [ title |-> "",
      description |-> "",
      requirements |-> "",
      location |-> "",
      country |-> "",
      state |-> "",
      city |-> "",
      zipCode |-> "",
      salary |-> "",
      employmentType |-> "full_time",
      experienceLevel |-> "mid",
      categoryId |-> 1,
      companyId |-> 1,
      skills |-> "" ]

\* The companies query is enabled for a search of two characters or more,
\* and for the empty search.
CompaniesQueryEnabled(companySearch) ==
    Len(companySearch) >= 2 \/ companySearch = ""

\* What useQuery hands to the page for the search it holds: the data the
\* query cache has for the key ['/api/companies', {search}], or the default
\* [] when it has none, and isLoading while the first fetch of that key is
\* under way.
WithCompaniesOfKey(j) ==
    [j EXCEPT
       !.companies =
           IF j.companiesCache[j.companySearch] # None
           THEN j.companiesCache[j.companySearch][1]
           ELSE <<>>,
       !.companiesLoading =
           /\ j.companiesCache[j.companySearch] = None
           /\ j.companySearch \in j.companiesFetching]

\* The page after construction: the dialog closed, no company selected, the
\* form at its defaults and not submitted, the query cache empty and the
\* query for the empty search under way.
JobsMounted(userType, schema) ==
    [ userType |-> userType,
      insertJobSchema |-> schema,
      isAddJobOpen |-> FALSE,
      selectedCompany |-> None,
      companySearch |-> "",
      companiesCache |-> [key \in CompanySearchValues |-> None],
      companiesFetching |-> {""},
      companies |-> <<>>,
      companiesLoading |-> TRUE,
      form |-> JobFormDefaults,
      formSubmitted |-> FALSE,
      formErrors |-> FALSE,
      createJob |-> "idle",
      submits |-> 0,
      requests |-> <<>>,
      toasts |-> <<>>,
      invalidated |-> <<>> ]

\* user?.userType === 'admin' && the dialog with its trigger
AddJobShown == jobs.userType = "admin"

\* zodResolver(insertJobSchema) on the form's data
ResolverAccepts(j, data) == data.title \in j.insertJobSchema

\* jobForm.reset(): the default values, not submitted, no errors.
WithFormReset(j) ==
    [j EXCEPT !.form = JobFormDefaults,
              !.formSubmitted = FALSE,
              !.formErrors = FALSE]

\* The search box holds a value: the query key is that of the value. A key
\* the cache has data for gives that data at once, without loading; an
\* enabled key it has no data for is fetched, unless its fetch is under way
\* already; a key that is not enabled is not fetched.
WithCompanySearch(j, value) ==
    WithCompaniesOfKey(
        [j EXCEPT
           !.companySearch = value,
           !.companiesFetching =
               IF CompaniesQueryEnabled(value) /\ j.companiesCache[value] = None
               THEN @ \cup {value}
               ELSE @])

\* The body of the request for a form's data and the selected company.
JobData(data, company) == [data EXCEPT !.companyId = company.id]

\* onOpenChange(true): the Add Job trigger.
OpenAddJob ==
    /\ AddJobShown
    /\ ~jobs.isAddJobOpen
    /\ jobs' = [jobs EXCEPT !.isAddJobOpen = TRUE]
    /\ UNCHANGED <<cardVars, checkout, auth>>

\* onOpenChange(false): the dialog is dismissed.
DismissAddJob ==
    /\ AddJobShown
    /\ jobs.isAddJobOpen
    /\ jobs' = [jobs EXCEPT !.isAddJobOpen = FALSE]
    /\ UNCHANGED <<cardVars, checkout, auth>>

\* onChange of the company search box
SetCompanySearch ==
    /\ AddJobShown
    /\ jobs.isAddJobOpen
    /\ \E value \in CompanySearchValues :
          /\ value # jobs.companySearch
          /\ jobs' = WithCompanySearch(jobs, value)
    /\ UNCHANGED <<cardVars, checkout, auth>>

\* The fetch of a key settles with the list of the response, which the cache
\* keeps for that key, whether the search box still holds the key or not.
CompaniesQuerySettles ==
    /\ \E key \in jobs.companiesFetching, list \in CompanyLists :
          jobs' = WithCompaniesOfKey(
                      [jobs EXCEPT
                         !.companiesCache[key] = Some(list),
                         !.companiesFetching = @ \ {key}])
    /\ UNCHANGED <<cardVars, checkout, auth>>

\* The data of the key the search box holds is fetched again while it is
\* shown: the cache's data is stale after the staleTime of the query client,
\* which is made outside this file.
CompaniesQueryRefetches ==
    /\ CompaniesQueryEnabled(jobs.companySearch)
    /\ jobs.companiesCache[jobs.companySearch] # None
    /\ jobs.companySearch \notin jobs.companiesFetching
    /\ jobs' = [jobs EXCEPT !.companiesFetching = @ \cup {jobs.companySearch}]
    /\ UNCHANGED <<cardVars, checkout, auth>>

\* onClick of a company of the list, which is there for a search of two
\* characters or more that is not loading.
SelectCompany ==
    /\ AddJobShown
    /\ jobs.isAddJobOpen
    /\ Len(jobs.companySearch) >= 2
    /\ ~jobs.companiesLoading
    /\ \E i \in 1..Len(jobs.companies) :
          LET company == jobs.companies[i]
          IN  jobs' = WithCompanySearch(
                          [jobs EXCEPT !.selectedCompany = Some(company)],
                          company.name)
    /\ UNCHANGED <<cardVars, checkout, auth>>

\* The title field of the form; the other fields stay at their defaults.
\* Once the form was submitted a change is validated again.
SetJobField ==
    /\ AddJobShown
    /\ jobs.isAddJobOpen
    /\ \E value \in TitleValues :
          /\ value # jobs.form.title
          /\ jobs' =
                [jobs EXCEPT
                   !.form.title = value,
                   !.formErrors =
                       /\ jobs.formSubmitted
                       /\ ~ResolverAccepts(jobs, [jobs.form EXCEPT
                                                     !.title = value])]
    /\ UNCHANGED <<cardVars, checkout, auth>>

\* The submit whose handler sends the form's data with its own companyId,
\* whether a company is selected or not.
SubmitJob_defaultCompany ==
    /\ AddJobShown
    /\ jobs.isAddJobOpen
    /\ jobs.createJob # "pending"
    /\ jobs.submits < MaxJobSubmits
    /\ jobs' =
          IF ~ResolverAccepts(jobs, jobs.form)
          THEN [jobs EXCEPT
                  !.submits = @ + 1,
                  !.formSubmitted = TRUE,
                  !.formErrors = TRUE]
          ELSE [jobs EXCEPT
                  !.submits = @ + 1,
                  !.formSubmitted = TRUE,
                  !.formErrors = FALSE,
                  !.createJob = "pending",
                  !.requests =
                      Append(@, [ method |-> "POST",
                                  url |-> "/api/jobs",
                                  body |-> jobs.form ])]
    /\ UNCHANGED <<cardVars, checkout, auth>>

\* onSubmit of the form: jobForm.handleSubmit validates the form's data with
\* the resolver and, for data it rejects, keeps the errors and calls no
\* handler. For data it accepts the handler runs: the toast and nothing else
\* without a selected company, otherwise createJobMutation.mutate with the
\* company's id in place of the data's own.
SubmitJob ==
    /\ AddJobShown
    /\ jobs.isAddJobOpen
    /\ jobs.createJob # "pending"
    /\ jobs.submits < MaxJobSubmits
    /\ jobs' =
          IF ~ResolverAccepts(jobs, jobs.form)
          THEN [jobs EXCEPT
                  !.submits = @ + 1,
                  !.formSubmitted = TRUE,
                  !.formErrors = TRUE]
          ELSE IF jobs.selectedCompany = None
          THEN [jobs EXCEPT
                  !.submits = @ + 1,
                  !.formSubmitted = TRUE,
                  !.formErrors = FALSE,
                  !.toasts = Append(@, Toast("Company required",
                      "Please select a company for this job", "destructive"))]
          ELSE [jobs EXCEPT
                  !.submits = @ + 1,
                  !.formSubmitted = TRUE,
                  !.formErrors = FALSE,
                  !.createJob = "pending",
                  !.requests =
                      Append(@, [ method |-> "POST",
                                  url |-> "/api/jobs",
                                  body |-> JobData(jobs.form,
                                               jobs.selectedCompany[1]) ])]
    /\ UNCHANGED <<cardVars, checkout, auth>>

\* createJobMutation settles: onSuccess toasts, closes the dialog, resets the
\* form, clears the selection and invalidates the jobs query; onError toasts.
CreateJobSettles ==
    /\ jobs.createJob = "pending"
    /\ \E outcome \in CreateJobOutcomes :
          jobs' =
            IF outcome.ok
            THEN [WithFormReset(jobs) EXCEPT
                    !.createJob = "success",
                    !.toasts = Append(@, Toast("Job created successfully",
                        "The job posting has been created", "default")),
                    !.isAddJobOpen = FALSE,
                    !.selectedCompany = None,
                    !.invalidated = Append(@, "/api/jobs")]
            ELSE [jobs EXCEPT
                    !.createJob = "error",
                    !.toasts = Append(@, Toast("Error creating job",
                        IF outcome.message # ""
                        THEN outcome.message
                        ELSE "Failed to create job posting",
                        "destructive"))]
    /\ UNCHANGED <<cardVars, checkout, auth>>

\* onClick of Cancel
CancelAddJob ==
    /\ AddJobShown
    /\ jobs.isAddJobOpen
    /\ jobs' = [WithFormReset(jobs) EXCEPT !.isAddJobOpen = FALSE,
                                           !.selectedCompany = None]
    /\ UNCHANGED <<cardVars, checkout, auth>>

----------------------------------------------------------------------------
(* The card under any props the parent may pass.                           *)

\* The three pages as they are after construction.
PagesAtRest ==
    /\ checkout = CheckoutMounted(None)
    /\ auth = AuthMounted(None, None)
    /\ jobs = JobsMounted("admin", TitleValues)

\* The other parent has not rendered the card.
NotRenderedElsewhere == [view |-> NoCard, renders |-> 0]

Init ==
    /\ application \in Applications
    /\ view = NoCard
    /\ renders = 0
    /\ elsewhere = NotRenderedElsewhere
    /\ PagesAtRest

\* The render with splice(0, 2) in place of slice(0, 2): the companies shown
\* are taken out of the application's own list.
Render_splice ==
    /\ renders <= MaxRenders
    /\ view' = ResumeScoreCard(application)
    /\ renders' = renders + 1
    /\ application' =
          IF application.isProcessed /\ ~HasProcessingError(application)
             /\ Len(ParsedCompaniesOf(application)) > 0
          THEN [application EXCEPT
                  !.parsedCompanies =
                      Some(SubSeq(@[1], 3, Len(@[1])))]
          ELSE application
    /\ UNCHANGED <<elsewhere, pageVars>>

\* React calls the component with the current props; the card is its result.
Render ==
    /\ renders <= MaxRenders
    /\ view' = ResumeScoreCard(application)
    /\ renders' = renders + 1
    /\ UNCHANGED application
    /\ UNCHANGED <<elsewhere, pageVars>>

Next == Render

Spec == Init /\ [][Next]_vars

----------------------------------------------------------------------------
(* The card of one application shown by two parents, each rendering it     *)
(* over again, in any order.                                               *)

\* Applications of every display state, with and without parsed companies
\* and a target company.
RepeatedApplications ==
    [ matchScore : {49, 80},
      skillsScore : {20, 50},
      experienceScore : {18},
      educationScore : {18},
      companyScore : {None, Some(20)},
      isProcessed : BOOLEAN,
      processingError : ProcessingErrorValues,
      parsedCompanies : ParsedCompaniesValues,
      job : {None, Some([title |-> "Engineer",
                         company |-> Some([name |-> "Acme"])])} ]

InitRepeated ==
    /\ application \in RepeatedApplications
    /\ view = NoCard
    /\ renders = 0
    /\ elsewhere = NotRenderedElsewhere
    /\ PagesAtRest

\* The other parent calls the component with the same application object.
RenderElsewhere ==
    /\ elsewhere.renders <= MaxRenders
    /\ elsewhere' = [view |-> ResumeScoreCard(application),
                     renders |-> elsewhere.renders + 1]
    /\ UNCHANGED <<application, view, renders, pageVars>>

NextRepeated == Render \/ RenderElsewhere

SpecRepeated == InitRepeated /\ [][NextRepeated]_vars

----------------------------------------------------------------------------
(* The pages, each for the parameters it reads.                            *)

\* An application that has not been analysed yet.
PendingApplications ==
    { [ matchScore |-> 0, skillsScore |-> 0, experienceScore |-> 0,
        educationScore |-> 0, companyScore |-> None, isProcessed |-> FALSE,
        processingError |-> None, parsedCompanies |-> None, job |-> j ] :
      j \in JobValues }

\* The checkout page, for every plan parameter.

\* The score card as it is before any application is handed to it.
CardAtRest ==
    /\ application \in {a \in PendingApplications : a.job = None}
    /\ view = NoCard
    /\ renders = 0
    /\ elsewhere = NotRenderedElsewhere

InitCheckout ==
    /\ CardAtRest
    /\ checkout \in {CheckoutMounted(param) : param \in PlanParams}
    /\ auth = AuthMounted(None, None)
    /\ jobs = JobsMounted("admin", TitleValues)

NextCheckout ==
    \/ CreateSubscription
    \/ CreateSubscriptionSettles
    \/ CreateSubscriptionFinally
    \/ StripeLoads
    \/ ElementsLoad
    \/ HandleSubmit
    \/ ConfirmPaymentResolves
    \/ ConfirmPaymentRejects
    \/ ConfirmPaymentRedirects

SpecCheckout == InitCheckout /\ [][NextCheckout]_vars

----------------------------------------------------------------------------
(* The sign-in / sign-up page, for every plan and mode parameter.          *)

InitAuth ==
    /\ CardAtRest
    /\ checkout = CheckoutMounted(None)
    /\ auth \in {AuthMounted(planParam, modeParam) :
                    planParam \in AuthPlanParams, modeParam \in AuthModeParams}
    /\ jobs = JobsMounted("admin", TitleValues)

NextAuth ==
    \/ SetActiveTab
    \/ HandleInputChange
    \/ SubmitRegister
    \/ SubmitLogin
    \/ RegisterSettles
    \/ LoginSettles
    \/ NavigateTimerFires

SpecAuth == InitAuth /\ [][NextAuth]_vars

----------------------------------------------------------------------------
(* The add-job form, for an admin and for another user.                    *)

InitJobs ==
    /\ CardAtRest
    /\ checkout = CheckoutMounted(None)
    /\ auth = AuthMounted(None, None)
    /\ jobs \in {JobsMounted(userType, schema) :
                    userType \in JobsUserTypes, schema \in InsertJobSchemas}

NextJobs ==
    \/ OpenAddJob
    \/ DismissAddJob
    \/ SetCompanySearch
    \/ CompaniesQuerySettles
    \/ CompaniesQueryRefetches
    \/ SelectCompany
    \/ SetJobField
    \/ SubmitJob
    \/ CreateJobSettles
    \/ CancelAddJob

SpecJobs == InitJobs /\ [][NextJobs]_vars

----------------------------------------------------------------------------
(* Properties of the card under any props (Spec).                          *)

Rendered == renders > 0

Qualified == Some("Qualified - Resume meets minimum requirements")
BelowThreshold == Some("Below threshold - Consider improving your resume")

Range(seq) == {seq[i] : i \in 1..Len(seq)}

\* C1: for every matchScore in [0,12] the scored card says "Qualified" if and
\* only if matchScore >= 5 and "Below threshold" otherwise; 5 itself qualifies.
C1_QualifiedIffAtLeastFive ==
    (view.state = "Scored" /\ application.matchScore \in 0..120) =>
        /\ view.verdict \in {Qualified, BelowThreshold}
        /\ view.verdict = Qualified <=> application.matchScore >= 50
        /\ view.verdict = BelowThreshold <=> application.matchScore < 50

C1_Witness ==
    /\ view.state = "Scored"
    /\ application.matchScore = 50
    /\ view.verdict = Qualified

\* C2: every overall score gets exactly one of the four band labels: >= 8
\* Excellent, 6 <= score < 8 Good, 4 <= score < 6 Fair, < 4 Needs Improvement;
\* the cut points 8, 6 and 4 fall in the higher band.
C2_BandOfOverallScore ==
    view.state = "Scored" =>
        LET m == application.matchScore
            label == view.overall[1].label
        IN  /\ label \in {"Excellent Match", "Good Match", "Fair Match",
                          "Needs Improvement"}
            /\ label = "Excellent Match" <=> m >= 80
            /\ label = "Good Match" <=> (60 <= m /\ m < 80)
            /\ label = "Fair Match" <=> (40 <= m /\ m < 60)
            /\ label = "Needs Improvement" <=> m < 40

C2_Witness ==
    /\ view.state = "Scored"
    /\ application.matchScore = 60
    /\ view.overall[1].label = "Good Match"

\* The seven rules as the specification declares them.
C3_RuleHolds(i, app) ==
    LET company == IF app.companyScore = None THEN 0 ELSE app.companyScore[1]
        target == app.job # None /\ app.job[1].company # None
    IN  CASE i = 1 -> app.skillsScore < 40
          [] i = 2 -> app.experienceScore < 15
          [] i = 3 -> app.educationScore < 15
          [] i = 4 -> company = 0 /\ target
          [] i = 5 -> company > 0
          [] i = 6 -> app.matchScore >= 70
          [] i = 7 -> app.matchScore < 50

C3_RuleText(i) ==
    << "Focus on highlighting more relevant technical skills (highest impact)",
       "Emphasize your relevant work experience and achievements",
       "Include relevant certifications or educational background",
       "Highlight any experience with similar companies or clients",
       "Excellent! Your experience with similar companies is a strong advantage",
       "Great match! Your profile aligns well with this position",
       "Consider tailoring your resume to better match job requirements" >>[i]

C3_Expected(app) ==
    LET held == SelectSeq(<<1, 2, 3, 4, 5, 6, 7>>, LAMBDA i : C3_RuleHolds(i, app))
    IN  [k \in 1..Len(held) |-> C3_RuleText(held[k])]

\* C3: the recommendation list of a scored card is exactly the rules whose
\* predicate holds, each once, in the declared order 1 to 7.
C3_RecommendationsInDeclaredOrder ==
    view.state = "Scored" => view.recommendations = C3_Expected(application)

C3_Witness ==
    /\ view.state = "Scored"
    /\ Len(view.recommendations) = 5
    /\ C3_RuleHolds(1, application)
    /\ C3_RuleHolds(4, application)
    /\ C3_RuleHolds(7, application)

\* C4: with isProcessed false the card is the pending card, with no band, no
\* verdict and no recommendation, whatever the scores and processingError.
C4_PendingShowsNothingScored ==
    (Rendered /\ ~application.isProcessed) =>
        /\ view.state = "Pending"
        /\ view.title = "Resume Analysis Pending"
        /\ view.overall = None
        /\ view.verdict = None
        /\ view.recommendations = <<>>
        /\ view.skills = None /\ view.experience = None
        /\ view.education = None /\ view.company = None

C4_Witness ==
    /\ Rendered
    /\ ~application.isProcessed
    /\ application.processingError = Some("OCR failed")
    /\ application.matchScore = 80
    /\ view.state = "Pending"

\* The card shows nothing derived from a score.
NothingScored ==
    /\ view.overall = None
    /\ view.verdict = None
    /\ view.recommendations = <<>>
    /\ view.skills = None /\ view.experience = None
    /\ view.education = None /\ view.company = None

\* The application with every score replaced by another value.
WithOtherScores(app) ==
    [app EXCEPT !.matchScore = 0, !.skillsScore = 0, !.experienceScore = 0,
                !.educationScore = 0, !.companyScore = None]

\* C5 as stated: whenever processingError is present (a non-empty string)
\* nothing is derived from the scores and the error string is what the card
\* displays.
C5_ErrorAlwaysSurfaced ==
    (/\ Rendered
     /\ application.processingError # None
     /\ application.processingError # Some("")) =>
        /\ NothingScored
        /\ view.description = application.processingError[1]

\* C5 amended: whenever isProcessed is true and processingError is a
\* non-empty string, the card is the failed card, nothing is derived from the
\* scores (the card is the same for any other scores) and the error string is
\* displayed unchanged; with isProcessed false the pending card is shown and
\* the error is not displayed.
C5_ErrorSurfacedWhenProcessed ==
    (/\ Rendered
     /\ application.processingError # None
     /\ application.processingError # Some("")) =>
        /\ NothingScored
        /\ view = ResumeScoreCard(WithOtherScores(application))
        /\ application.isProcessed =>
              /\ view.state = "Failed"
              /\ view.description = application.processingError[1]
        /\ ~application.isProcessed =>
              /\ view.state = "Pending"
              /\ view.description # application.processingError[1]

C5_Witness ==
    /\ Rendered
    /\ application.isProcessed
    /\ application.processingError = Some("OCR failed")
    /\ application.matchScore = 80
    /\ view.state = "Failed"
    /\ view.description = "OCR failed"

\* C6: Pending iff isProcessed is false, Failed iff isProcessed is true and
\* processingError is set (a string, not null), Scored iff isProcessed is
\* true and processingError is null; only Scored shows band, verdict and
\* recommendations.
C6_DispatchOnNull ==
    Rendered =>
        /\ view.state \in {"Pending", "Failed", "Scored"}
        /\ view.state = "Pending" <=> ~application.isProcessed
        /\ view.state = "Failed" <=>
              (application.isProcessed /\ application.processingError # None)
        /\ view.state = "Scored" <=>
              (application.isProcessed /\ application.processingError = None)
        /\ view.state # "Scored" => NothingScored

\* C7: rule 4 (similar companies) and rule 5 (company advantage) never both
\* appear in one recommendation list.
C7_CompanyRulesExclusive ==
    Rendered =>
        ~ (/\ C3_RuleText(4) \in Range(view.recommendations)
           /\ C3_RuleText(5) \in Range(view.recommendations))

C7_Witness ==
    /\ view.state = "Scored"
    /\ application.companyScore = Some(0)
    /\ application.job # None
    /\ application.job[1].company # None
    /\ C3_RuleText(4) \in Range(view.recommendations)
    /\ C3_RuleText(5) \notin Range(view.recommendations)

\* The assessment {skills 2, experience 2, education 2, company 0, match 6}.
C8_Scenario ==
    /\ application.skillsScore = 20
    /\ application.experienceScore = 20
    /\ application.educationScore = 20
    /\ application.companyScore = Some(0)
    /\ application.matchScore = 60

\* C8 as stated: on that assessment the scored card says Qualified, the band
\* is Good and the only recommendation is the skills one.
C8_OnlySkillsRecommendation ==
    (view.state = "Scored" /\ C8_Scenario) =>
        /\ view.verdict = Qualified
        /\ view.overall[1].label = "Good Match"
        /\ view.recommendations = <<C3_RuleText(1)>>

\* C8 amended: on that assessment the scored card says Qualified and the
\* band is Good; the only recommendation is the skills one when the job has
\* no target company, and with a target company the list is the skills
\* recommendation followed by the similar-companies one.
C8_SkillsAndTargetCompany ==
    (view.state = "Scored" /\ C8_Scenario) =>
        /\ view.verdict = Qualified
        /\ view.overall[1].label = "Good Match"
        /\ view.recommendations =
              IF application.job # None /\ application.job[1].company # None
              THEN <<C3_RuleText(1), C3_RuleText(4)>>
              ELSE <<C3_RuleText(1)>>

C8_Witness ==
    /\ view.state = "Scored"
    /\ C8_Scenario
    /\ application.job = None
    /\ view.recommendations = <<C3_RuleText(1)>>

\* The colour token of the band of a score on the 12-point scale.
C9_BandColor(score12) ==
    IF score12 >= 80 THEN "text-green-600 bg-green-100"
    ELSE IF score12 >= 60 THEN "text-yellow-600 bg-yellow-100"
    ELSE IF score12 >= 40 THEN "text-orange-600 bg-orange-100"
    ELSE "text-red-600 bg-red-100"

\* C9: each sub-score, rescaled to 12 points (score * 12 / scale), gets the
\* colour token of its own band, as the overall score does.
C9_SubScoresBanded ==
    view.state = "Scored" =>
        /\ view.overall[1].colorClass = C9_BandColor(application.matchScore)
        /\ view.skills[1].colorClass = C9_BandColor(application.skillsScore * 2)
        /\ view.experience[1].colorClass =
              C9_BandColor(application.experienceScore * 6)
        /\ view.education[1].colorClass =
              C9_BandColor(application.educationScore * 6)
        /\ view.company[1].colorClass =
              C9_BandColor((IF application.companyScore = None THEN 0
                            ELSE application.companyScore[1]) * 6)

\* The progress value num / den lies within 0..100 percent.
WithinPercent(progress) ==
    /\ 0 <= progress.num
    /\ progress.num <= 100 * progress.den

\* C11: every ratio the scored card outputs (overall / 12, skills / 6,
\* experience / 2, education / 2, company) lies within [0,1], that is every
\* progress value within 0..100 percent, for out-of-range scores as well.
C11_RatiosClamped ==
    view.state = "Scored" =>
        /\ WithinPercent(view.overall[1].progress)
        /\ WithinPercent(view.skills[1].progress)
        /\ WithinPercent(view.experience[1].progress)
        /\ WithinPercent(view.education[1].progress)
        /\ WithinPercent(view.company[1].progress)

\* The assessment {skills 5, experience 1.8, education 1.8, company 2,
\* match 10.6} with a target company.
C12_Scenario ==
    /\ application.skillsScore = 50
    /\ application.experienceScore = 18
    /\ application.educationScore = 18
    /\ application.companyScore = Some(20)
    /\ application.matchScore = 106
    /\ application.job # None
    /\ application.job[1].company # None

\* C12: on that assessment the scored card says Qualified, the band is
\* Excellent and the recommendations are the company-match reinforcement
\* followed by the overall-match reinforcement.
C12_CompanyThenGreatMatch ==
    (view.state = "Scored" /\ C12_Scenario) =>
        /\ view.verdict = Qualified
        /\ view.overall[1].label = "Excellent Match"
        /\ view.recommendations = <<C3_RuleText(5), C3_RuleText(6)>>

C12_Witness ==
    /\ view.state = "Scored"
    /\ C12_Scenario
    /\ Len(view.recommendations) = 2

C14_OneTokenPerBand ==
    view.state = "Scored" =>
        <<view.overall[1].label, view.overall[1].colorClass,
          view.overall[1].progressColor>> \in
            { <<"Excellent Match", "text-green-600 bg-green-100", "bg-green-500">>,
              <<"Good Match", "text-yellow-600 bg-yellow-100", "bg-yellow-500">>,
              <<"Fair Match", "text-orange-600 bg-orange-100", "bg-orange-500">>,
              <<"Needs Improvement", "text-red-600 bg-red-100", "bg-red-500">> }

C14_Witness ==
    /\ view.state = "Scored"
    /\ application.matchScore = 40
    /\ view.overall[1].progressColor = "bg-orange-500"
    /\ view.overall[1].label = "Fair Match"

\* C15: on a scored card the "tailor your resume" recommendation (rule 7)
\* appears if and only if the verdict is Below threshold, the "Great match"
\* recommendation (rule 6) appears only with the verdict Qualified, and the
\* two never appear together.
C15_RecommendationsAgreeWithVerdict ==
    view.state = "Scored" =>
        LET recs == Range(view.recommendations)
        IN  /\ C3_RuleText(7) \in recs <=> view.verdict = BelowThreshold
            /\ C3_RuleText(6) \in recs => view.verdict = Qualified
            /\ ~ (C3_RuleText(6) \in recs /\ C3_RuleText(7) \in recs)

C15_Witness ==
    /\ view.state = "Scored"
    /\ application.matchScore = 49
    /\ C3_RuleText(7) \in Range(view.recommendations)
    /\ view.verdict = BelowThreshold

\* The sum of the four sub-scores of an application.
SubScoreSum(app) ==
    app.skillsScore + app.experienceScore + app.educationScore
        + CompanyScoreOf(app)

\* C10 as stated: on every scored card the displayed matchScore is
\* skillsScore + experienceScore + educationScore + companyScore, and it lies
\* in [0,12].
C10_DisplayedScoreIsSum ==
    view.state = "Scored" =>
        /\ view.overall[1].text =
              NumberToString(SubScoreSum(application)) \o "/12"
        /\ view.overall[1].text \in
              {NumberToString(n) \o "/12" : n \in 0..120}

\* C10 amended: on every scored card the displayed matchScore is the
\* matchScore of the snapshot, printed as it was handed in; it is the sum of
\* the four sub-scores, and within [0,12], when the snapshot is.
C10_DisplayedScoreIsGiven ==
    view.state = "Scored" =>
        /\ view.overall[1].text =
              NumberToString(application.matchScore) \o "/12"
        /\ application.matchScore = SubScoreSum(application) =>
              view.overall[1].text =
                  NumberToString(SubScoreSum(application)) \o "/12"
        /\ application.matchScore \in 0..120 =>
              view.overall[1].text \in
                  {NumberToString(n) \o "/12" : n \in 0..120}

\* A snapshot that keeps the invariant is shown with its sum, and one that
\* does not is shown with its matchScore all the same.
C10_Witness ==
    /\ view.state = "Scored"
    /\ application.skillsScore = 50
    /\ application.experienceScore = 18
    /\ application.educationScore = 18
    /\ application.companyScore = Some(20)
    /\ application.matchScore = 106
    /\ view.overall[1].text = "10.6/12"

----------------------------------------------------------------------------
(* Properties of the checkout page (SpecCheckout).                         *)

Last(seq) == seq[Len(seq)]

\* C16: every handleSubmit leaves isProcessing false again on every path, so
\* the button does not stay on "Processing...": whenever no handleSubmit is
\* under way, isProcessing is false.
C16_ProcessingAlwaysReset ==
    checkout.submit = "idle" =>
        /\ ~checkout.isProcessing
        /\ SubmitLabel(checkout) = "Start Subscription"

\* A body with a non-empty clientSecret was received.
ClientSecretReceived ==
    /\ checkout.response # None
    /\ checkout.response[1].ok
    /\ checkout.response[1].clientSecret # ""

\* C17: once the create-subscription request has settled isLoading is false,
\* the payment form is rendered if and only if a non-empty clientSecret was
\* received, and the "Unable to initialize payment" view is shown otherwise.
C17_FormIffClientSecret ==
    (checkout.request = "settled" /\ checkout.location = "/checkout") =>
        /\ ~checkout.isLoading
        /\ CheckoutScreen(checkout) = "Payment" <=> ClientSecretReceived
        /\ ~ClientSecretReceived => CheckoutScreen(checkout) = "Unable"

\* C18: whenever the page gets to render the plan summary and the payment
\* form (loading over, clientSecret received), the plan details of the URL's
\* plan parameter are defined, whatever the parameter.
C18_PlanDetailsDefined ==
    (~checkout.isLoading /\ checkout.clientSecret # "") =>
        currentPlan(CheckoutPlan(checkout.planParam)) # None

PaymentSuccessful ==
    Toast("Payment Successful",
          "Welcome to PingJob Pro! Your subscription is now active.", "default")

\* C19: the "Payment Successful" toast and the navigation to /dashboard
\* happen only when confirmPayment returned no error; when it returned an
\* error the user stays on /checkout and the last toast is "Payment Failed"
\* with the error's message.
C19_SuccessOnlyWithoutError ==
    /\ checkout.location \in {"/checkout", "/dashboard"}
    /\ checkout.location = "/dashboard" =>
          /\ checkout.error = Some(None)
          /\ Len(checkout.toasts) > 0
          /\ Last(checkout.toasts) = PaymentSuccessful
    /\ \A i \in 1..Len(checkout.toasts) :
          checkout.toasts[i].title = "Payment Successful" =>
              /\ checkout.error = Some(None)
              /\ checkout.location = "/dashboard"
    /\ (checkout.error # None /\ checkout.error # Some(None)) =>
          /\ checkout.location = "/checkout"
          /\ Len(checkout.toasts) > 0
          /\ Last(checkout.toasts) =
                Toast("Payment Failed", checkout.error[1][1], "destructive")

C19_Witness ==
    /\ Len(checkout.toasts) = 2
    /\ checkout.toasts[1] =
          Toast("Payment Failed", "Your card was declined.", "destructive")
    /\ checkout.toasts[2] = PaymentSuccessful
    /\ checkout.location = "/dashboard"

----------------------------------------------------------------------------
(* Properties of the sign-in / sign-up page (SpecAuth).                    *)

\* C20: a sign-up sends a registration request only if password equals
\* confirmPassword and the password has at least 6 characters; otherwise it
\* sends nothing and shows an error, the mismatch error coming before the
\* length error.
C20_RegisterOnlyWhenValid ==
    [][LET pw == auth.formData.password
           cpw == auth.formData.confirmPassword
           submitted == /\ auth'.submits = auth.submits + 1
                        /\ auth.activeTab = "register"
           sent == /\ Len(auth'.requests) = Len(auth.requests) + 1
                   /\ Last(auth'.requests).url = "/api/register"
       IN  /\ sent => (submitted /\ pw = cpw /\ Len(pw) >= 6
                       /\ Last(auth'.requests).body.password = pw)
           /\ (submitted /\ pw # cpw) =>
                 /\ auth'.requests = auth.requests
                 /\ auth'.toasts =
                       Append(auth.toasts,
                              Toast("Passwords don't match",
                                    "Please make sure your passwords match.",
                                    "destructive"))
           /\ (submitted /\ pw = cpw /\ Len(pw) < 6) =>
                 /\ auth'.requests = auth.requests
                 /\ auth'.toasts =
                       Append(auth.toasts,
                              Toast("Password too short",
                                    "Password must be at least 6 characters long.",
                                    "destructive"))
           /\ (submitted /\ pw = cpw /\ Len(pw) >= 6) =>
                 sent /\ auth'.toasts = auth.toasts
      ]_vars

C20_Witness ==
    /\ auth.submits = 1
    /\ auth.requests = <<>>
    /\ auth.formData.password = "abc"
    /\ auth.formData.confirmPassword = "abcdef"
    /\ Len(auth.toasts) = 1
    /\ auth.toasts[1].title = "Passwords don't match"

\* C21: when a registration succeeds the page goes to /checkout?plan=recruiter
\* if the plan parameter of the URL is "recruiter" and to /dashboard for every
\* other plan, whatever account type the form holds; when a registration
\* fails, by a response that is not ok or by a request error, the location
\* stays as it was.
C21_RedirectFollowsUrlPlan ==
    [][LET settled == auth.register = "pending" /\ auth'.register # "pending"
       IN  /\ (settled /\ auth'.registerResponse = Some("ok")) =>
                 auth'.location =
                    IF auth.planParam = Some("recruiter")
                    THEN "/checkout?plan=recruiter"
                    ELSE "/dashboard"
           /\ (settled /\ auth'.registerResponse # Some("ok")) =>
                 auth'.location = auth.location
           /\ auth'.location = "/checkout?plan=recruiter" =>
                 /\ auth'.planParam = Some("recruiter")
                 /\ auth'.registerResponse = Some("ok")
      ]_vars

\* C22: a login that succeeds writes the user into the query cache in the
\* step that arms the timer, the location still unchanged, so that the cache
\* holds a user whenever the timer is armed and when it fires and navigates
\* to /dashboard; a login that fails, by a response that is not ok or by a
\* request error, leaves the cached user and the location as they were and
\* arms no timer.
C22_CacheBeforeNavigation ==
    [][LET settled == auth.login = "pending" /\ auth'.login # "pending"
           fired == auth.navigateTimer /\ ~auth'.navigateTimer
       IN  /\ (settled /\ auth'.login = "success") =>
                 /\ auth'.cachedUser # None
                 /\ auth'.navigateTimer
                 /\ auth'.location = auth.location
           /\ fired =>
                 /\ auth.cachedUser # None
                 /\ auth'.cachedUser = auth.cachedUser
                 /\ auth'.location = "/dashboard"
           /\ settled =>
                 (auth'.login = "error" <=> auth'.loginResponse # Some("ok"))
           /\ (settled /\ auth'.login = "error") =>
                 /\ auth'.cachedUser = auth.cachedUser
                 /\ auth'.location = auth.location
                 /\ auth'.navigateTimer = auth.navigateTimer
           /\ (auth'.login = "success" \/ auth'.navigateTimer) =>
                 auth'.cachedUser # None
      ]_vars

\* A successful login whose timer has fired: the user is cached and the page
\* is the dashboard.
C22_Witness ==
    /\ auth.login = "success"
    /\ auth.cachedUser = Some("ann")
    /\ ~auth.navigateTimer
    /\ auth.location = "/dashboard"

----------------------------------------------------------------------------
(* Properties of the add-job form (SpecJobs).                              *)

\* C23 as stated: a create-job request is sent only by a submit with a
\* company selected, and carries that company's id as companyId; every
\* submit without a selected company shows the "Company required" toast and
\* sends nothing; after Cancel, and after a creation that succeeded, no
\* company is selected.
C23_EverySubmitReachesHandler ==
    [][LET submitted == jobs'.submits = jobs.submits + 1
           sent == Len(jobs'.requests) = Len(jobs.requests) + 1
           created == jobs.createJob = "pending" /\ jobs'.createJob = "success"
       IN  /\ jobs'.requests # jobs.requests => sent /\ submitted
           /\ sent =>
                 /\ jobs.selectedCompany # None
                 /\ Last(jobs'.requests).url = "/api/jobs"
                 /\ Last(jobs'.requests).body.companyId =
                       jobs.selectedCompany[1].id
           /\ (submitted /\ jobs.selectedCompany = None) =>
                 /\ jobs'.requests = jobs.requests
                 /\ jobs'.toasts =
                       Append(jobs.toasts,
                              Toast("Company required",
                                    "Please select a company for this job",
                                    "destructive"))
           /\ (CancelAddJob \/ created) => jobs'.selectedCompany = None
      ]_vars

\* C23 amended: a create-job request is sent only by a submit whose data the
\* form's validation accepts and with a company selected, and carries that
\* company's id as companyId, whatever companyId the form's data holds; a
\* submit of accepted data without a selected company shows the "Company
\* required" toast and sends nothing; a submit of data the validation
\* rejects sends nothing and shows no toast, with or without a company;
\* after Cancel, and after a creation that succeeded, no company is selected.
C23_RequestOnlyWithCompany ==
    [][LET submitted == jobs'.submits = jobs.submits + 1
           accepted == ResolverAccepts(jobs, jobs.form)
           sent == Len(jobs'.requests) = Len(jobs.requests) + 1
           created == jobs.createJob = "pending" /\ jobs'.createJob = "success"
       IN  /\ jobs'.requests # jobs.requests =>
                 sent /\ submitted /\ accepted
           /\ sent =>
                 /\ jobs.selectedCompany # None
                 /\ Last(jobs'.requests).url = "/api/jobs"
                 /\ Last(jobs'.requests).body.companyId =
                       jobs.selectedCompany[1].id
           /\ (submitted /\ accepted /\ jobs.selectedCompany = None) =>
                 /\ jobs'.requests = jobs.requests
                 /\ jobs'.createJob = jobs.createJob
                 /\ jobs'.toasts =
                       Append(jobs.toasts,
                              Toast("Company required",
                                    "Please select a company for this job",
                                    "destructive"))
           /\ (submitted /\ accepted /\ jobs.selectedCompany # None) =>
                 sent /\ jobs'.toasts = jobs.toasts
           /\ (submitted /\ ~accepted) =>
                 /\ jobs'.requests = jobs.requests
                 /\ jobs'.createJob = jobs.createJob
                 /\ jobs'.toasts = jobs.toasts
           /\ (CancelAddJob \/ created) => jobs'.selectedCompany = None
      ]_vars

\* A first submit of accepted data without a company, then one for Globex,
\* picked from the answer the cache holds for its search, that is created:
\* the only request carries Globex's id, not the form's default, and the
\* selection is gone.
C23_Witness ==
    /\ jobs.submits = 2
    /\ Len(jobs.requests) = 1
    /\ jobs.requests[1].body.companyId = Globex.id
    /\ Globex.id # JobFormDefaults.companyId
    /\ Len(jobs.toasts) = 2
    /\ jobs.toasts[1].title = "Company required"
    /\ jobs.createJob = "success"
    /\ jobs.selectedCompany = None
    /\ jobs.companiesCache["Globex"] = Some(<<Globex>>)
    /\ jobs.companiesCache[""] # None

====
